---- MODULE Spec2Model ----
(***************************************************************************)
(* Model of inventory_models.py: the four inventory model classes          *)
(* BasicEOQ, EPQ, DiscountEOQ and BackorderEOQ, one instance at a time,    *)
(* together with the caller's discount-schedule dict that DiscountEOQ      *)
(* keeps a reference to.                                                   *)
(*                                                                         *)
(* Numbers.  Python floats are modelled by exact values of the form        *)
(* a + b * sqrt(n) with a, b rational and n a square-free integer, plus    *)
(* +infinity.  Every value the code computes from rational inputs has this *)
(* form.  Rounding of binary floating point is not modelled.               *)
(***************************************************************************)
EXTENDS Integers, Sequences, FiniteSets, TLC

(***************************************************************************)
(* Bounds of the input sets.                                               *)
(***************************************************************************)
MaxPrice == 2
MaxDemand == 2
MaxBreak == 2
MaxCalcs == 2

(***************************************************************************)
(* Rational arithmetic: <<n, d>> with d > 0 and gcd(n, d) = 1.             *)
(***************************************************************************)
RECURSIVE GCD(_, _)
GCD(a, b) == IF b = 0 THEN a ELSE GCD(b, a % b)

Abs(x) == IF x < 0 THEN -x ELSE x

Rat(n, d) ==
    LET g == GCD(Abs(n), Abs(d))
        sg == IF d < 0 THEN -1 ELSE 1
    IN  <<(sg * n) \div g, (sg * d) \div g>>

Whole(n) == <<n, 1>>
Zero == <<0, 1>>

RAdd(x, y) ==
    IF x[2] = 1 /\ y[2] = 1 THEN <<x[1] + y[1], 1>>
    ELSE Rat(x[1] * y[2] + y[1] * x[2], x[2] * y[2])
RSub(x, y) ==
    IF x[2] = 1 /\ y[2] = 1 THEN <<x[1] - y[1], 1>>
    ELSE Rat(x[1] * y[2] - y[1] * x[2], x[2] * y[2])
\* the product of two fractions in lowest terms, reduced crosswise
RMul(x, y) ==
    IF x[2] = 1 /\ y[2] = 1 THEN <<x[1] * y[1], 1>>
    ELSE LET g1 == GCD(Abs(x[1]), y[2])
             g2 == GCD(Abs(y[1]), x[2])
         IN  <<(x[1] \div g1) * (y[1] \div g2), (x[2] \div g2) * (y[2] \div g1)>>
RDiv(x, y) == RMul(x, Rat(y[2], y[1]))
RLt(x, y) == x[1] * y[2] < y[1] * x[2]
RLe(x, y) == x[1] * y[2] <= y[1] * x[2]
RSq(x) == <<x[1] * x[1], x[2] * x[2]>>

RNeg(x) == <<-x[1], x[2]>>
RSign(x) == IF x[1] > 0 THEN 1 ELSE IF x[1] < 0 THEN -1 ELSE 0

\* the largest f with f * f dividing m, for m >= 1
RECURSIVE SquarePart(_, _)
SquarePart(m, f) ==
    IF f * f > m THEN 1
    ELSE IF m % (f * f) = 0 THEN f * SquarePart(m \div (f * f), f)
    ELSE SquarePart(m, f + 1)

(***************************************************************************)
(* Float values.  [k |-> "fin", a |-> rational, b |-> rational, n |-> int] *)
(* stands for a + b * sqrt(n) with n >= 1 square-free; b = 0 when n = 1,   *)
(* and n = 1 when b = 0, so equal numbers are equal records.               *)
(* [k |-> "inf"] is float('inf') and [k |-> "None"] is Python's None.      *)
(***************************************************************************)
None == [k |-> "None"]
Inf == [k |-> "inf"]
Fin(a, b, n) ==
    IF n = 1 THEN [k |-> "fin", a |-> RAdd(a, b), b |-> Zero, n |-> 1]
    ELSE IF b = Zero THEN [k |-> "fin", a |-> a, b |-> Zero, n |-> 1]
    ELSE [k |-> "fin", a |-> a, b |-> b, n |-> n]
Num(r) == [k |-> "fin", a |-> r, b |-> Zero, n |-> 1]

\* math.sqrt(r) for a rational r >= 0: sqrt(p/q) = (f/q) * sqrt(p*q / f^2)
Sqrt(r) ==
    IF r = Zero THEN Num(Zero)
    ELSE LET m == r[1] * r[2]
             f == SquarePart(m, 2)
         IN  Fin(Zero, Rat(f, r[2]), m \div (f * f))

\* the field of the pair: the n of the operand that has an irrational part
FieldOf(x, y) == IF x.b # Zero THEN x.n ELSE y.n

\* x + y, x - y, x * y, x / y on finite values of one field
Add(x, y) == Fin(RAdd(x.a, y.a), RAdd(x.b, y.b), FieldOf(x, y))
Sub(x, y) == Fin(RSub(x.a, y.a), RSub(x.b, y.b), FieldOf(x, y))
Mul(x, y) ==
    LET n == FieldOf(x, y)
    IN  Fin(RAdd(RMul(x.a, y.a), RMul(RMul(x.b, y.b), Whole(n))),
            RAdd(RMul(x.a, y.b), RMul(x.b, y.a)), n)
Div(x, y) ==
    LET n == FieldOf(x, y)
        den == RSub(RSq(y.a), RMul(RSq(y.b), Whole(y.n)))
        num == Mul(x, Fin(y.a, RNeg(y.b), y.n))
    IN  Fin(RDiv(num.a, den), RDiv(num.b, den), n)

\* c + sign(w) * sqrt(|w|) > 0
PosOne(c, w) ==
    CASE w = Zero -> RLt(Zero, c)
      [] RLt(Zero, w) -> RLe(Zero, c) \/ RLt(RSq(c), w)
      [] OTHER -> RLt(Zero, c) /\ RLt(RNeg(w), RSq(c))

\* c + sign(w1) * sqrt(|w1|) + sign(w2) * sqrt(|w2|) > 0
PosTwo(c, w1, w2) ==
    CASE w2 = Zero -> PosOne(c, w1)
      [] w1 = Zero -> PosOne(c, w2)
      [] OTHER ->
           LET s1 == IF RLt(w1, Zero) THEN RNeg(w1) ELSE w1
               s2 == IF RLt(w2, Zero) THEN RNeg(w2) ELSE w2
               tau == RSign(w1) * RSign(w2)
               wsign == IF tau = 1 THEN RSign(w1)
                        ELSE RSign(w1) * RSign(RSub(s1, s2))
               g == RSub(RSub(RSq(c), s1), s2)
               m == RMul(Whole(4 * tau), RMul(s1, s2))
           IN  CASE wsign = 0 -> RLt(Zero, c)
                 [] RSign(c) = 0 -> wsign > 0
                 [] RSign(c) > 0 /\ wsign > 0 -> TRUE
                 [] RSign(c) < 0 /\ wsign < 0 -> FALSE
                 [] RSign(c) > 0 /\ wsign < 0 -> PosOne(g, RNeg(m))
                 [] OTHER -> PosOne(RNeg(g), m)

\* the signed square of the irrational part: sign(b) * b^2 * n
Radicand(x) == RMul(Whole(RSign(x.b) * x.n), RSq(x.b))

\* x < y, x > y, x <= y on floats
Lt(x, y) ==
    CASE x.k = "inf" -> FALSE
      [] y.k = "inf" -> TRUE
      [] x.b # Zero /\ y.b # Zero /\ x.n = y.n ->
           LET d == Sub(y, x) IN PosOne(d.a, Radicand(d))
      [] OTHER -> PosTwo(RSub(y.a, x.a), Radicand(y), RNeg(Radicand(x)))
Gt(x, y) == Lt(y, x)
Le(x, y) == ~Lt(y, x)

(***************************************************************************)
(* State.                                                                  *)
(*   self          the model instance, NoInstance before construction and  *)
(*                 after a constructor that raised; one constructor call   *)
(*                 is made, from the initial state                         *)
(*   caller_rates  the dict object the caller passed as discount_rates;    *)
(*                 DiscountEOQ.discount_rates is a reference to it         *)
(*   mutated       the caller has changed that dict after the constructor  *)
(*                 returned (it does so at most once)                      *)
(*   call, ret     the last call made and its outcome                      *)
(*   first, calcs  the result of the first calculate_eoq call the caller    *)
(*                 made on self, and the number of such calls              *)
(*   printed       the last call wrote to standard output                  *)
(***************************************************************************)
VARIABLES self, caller_rates, mutated, call, ret, first, calcs, printed

vars == <<self, caller_rates, mutated, call, ret, first, calcs, printed>>

Prices == -1..MaxPrice
Demands == -1..MaxDemand
OrderCosts == {-1, 0, 1}
HoldingRates == {Rat(-1, 2), Zero, Rat(1, 2)}
ProductionRates == -1..(MaxDemand + 1)
ShortageCosts == {-1, 0, 1}
Breaks == 0..MaxBreak
DiscountRates == {Rat(-1, 2), Zero, Rat(1, 2), Whole(1)}
\* every dict {breakpoint: rate} over the breakpoints
Schedules == UNION {[ks -> DiscountRates] : ks \in SUBSET Breaks}
\* the dicts with at most one entry
SmallSchedules == {d \in Schedules : Cardinality(DOMAIN d) <= 1}
LeadTimes == {None, Num(Whole(-1)), Num(Zero), Num(Whole(1))}
SafetyStocks == {-1, 0, 1}
DaysOfOperation == {0, 2}
\* times in days: a fifth of a year, a year, and a year and a fifth
Times == {0, 73, 365, 438}

NoInstance ==
    [cls |-> "None", price |-> Zero, demand_rate |-> Zero, ordering_cost |-> Zero,
     holding_rate |-> Zero, holding_cost |-> Zero, lead_time |-> None,
     eoq_value |-> None, production_rate |-> Zero, shortage_cost |-> Zero,
     sorted_discounts |-> <<>>, discount_rates |-> "absent"]

Return(v) == [kind |-> "return", exc |-> "", v |-> v]
Raise(e) == [kind |-> "raise", exc |-> e, v |-> None]
NoCall == [op |-> "none"]

Init ==
    /\ self = NoInstance
    /\ caller_rates = <<>>
    /\ mutated = FALSE
    /\ call = NoCall
    /\ ret = Return(None)
    /\ first = None
    /\ calcs = 0
    /\ printed = FALSE

(***************************************************************************)
(* BasicEOQ.__init__                                                       *)
(***************************************************************************)
\* variant: the price check is strict, so a price of 0 is accepted
BasicInitRaisesStrictPrice(price, demand_rate, ordering_cost, holding_rate) ==
    \/ RLe(demand_rate, Zero)
    \/ RLe(ordering_cost, Zero)
    \/ RLt(price, Zero)
    \/ RLe(holding_rate, Zero)

BasicInitRaises(price, demand_rate, ordering_cost, holding_rate) ==
    \/ RLe(demand_rate, Zero)
    \/ RLe(ordering_cost, Zero)
    \/ RLe(price, Zero)
    \/ RLe(holding_rate, Zero)

BasicInit(cls, price, demand_rate, ordering_cost, holding_rate, lead_time) ==
    [NoInstance EXCEPT !.cls = cls,
                       !.price = price,
                       !.demand_rate = demand_rate,
                       !.ordering_cost = ordering_cost,
                       !.holding_rate = holding_rate,
                       !.holding_cost = RMul(price, holding_rate),
                       !.lead_time = lead_time,
                       !.eoq_value = None]

BaseArgs(p, d, s, h) ==
    [price |-> Whole(p), demand_rate |-> Whole(d), ordering_cost |-> Whole(s),
     holding_rate |-> h]

NewBasicEOQ ==
    /\ call.op = "none"
    /\ \E p \in Prices, d \in Demands, s \in OrderCosts, h \in HoldingRates :
         LET a == BaseArgs(p, d, s, h) IN
         /\ call' = [op |-> "BasicEOQ", args |-> a]
         /\ IF BasicInitRaises(a.price, a.demand_rate, a.ordering_cost, a.holding_rate)
            THEN /\ ret' = Raise("ValueError")
                 /\ self' = NoInstance
            ELSE /\ ret' = Return(None)
                 /\ self' = BasicInit("BasicEOQ", a.price, a.demand_rate,
                                      a.ordering_cost, a.holding_rate, None)
    /\ first' = None
    /\ calcs' = 0
    /\ printed' = FALSE
    /\ UNCHANGED <<caller_rates, mutated>>

(***************************************************************************)
(* EPQ.__init__                                                            *)
(***************************************************************************)
EPQInitRaises(a) ==
    \/ BasicInitRaises(a.price, a.demand_rate, a.ordering_cost, a.holding_rate)
    \/ RLe(a.production_rate, Zero)
    \/ RLe(a.production_rate, a.demand_rate)

NewEPQ ==
    /\ call.op = "none"
    /\ \E p \in Prices, d \in Demands, s \in OrderCosts, h \in HoldingRates,
          pr \in ProductionRates :
         LET b == BaseArgs(p, d, s, h)
             a == [price |-> b.price, demand_rate |-> b.demand_rate,
                   ordering_cost |-> b.ordering_cost, holding_rate |-> b.holding_rate,
                   production_rate |-> Whole(pr)]
         IN
         /\ call' = [op |-> "EPQ", args |-> a]
         /\ IF EPQInitRaises(a)
            THEN /\ ret' = Raise("ValueError")
                 /\ self' = NoInstance
            ELSE /\ ret' = Return(None)
                 /\ self' = [BasicInit("EPQ", a.price, a.demand_rate, a.ordering_cost,
                                       a.holding_rate, None)
                               EXCEPT !.production_rate = a.production_rate]
    /\ first' = None
    /\ calcs' = 0
    /\ printed' = FALSE
    /\ UNCHANGED <<caller_rates, mutated>>

(***************************************************************************)
(* BackorderEOQ.__init__                                                   *)
(***************************************************************************)
BackorderInitRaises(a) ==
    \/ BasicInitRaises(a.price, a.demand_rate, a.ordering_cost, a.holding_rate)
    \/ RLe(a.shortage_cost, Zero)

NewBackorderEOQ ==
    /\ call.op = "none"
    /\ \E p \in Prices, d \in Demands, s \in OrderCosts, h \in HoldingRates,
          sc \in ShortageCosts :
         LET b == BaseArgs(p, d, s, h)
             a == [price |-> b.price, demand_rate |-> b.demand_rate,
                   ordering_cost |-> b.ordering_cost, holding_rate |-> b.holding_rate,
                   shortage_cost |-> Whole(sc)]
         IN
         /\ call' = [op |-> "BackorderEOQ", args |-> a]
         /\ IF BackorderInitRaises(a)
            THEN /\ ret' = Raise("ValueError")
                 /\ self' = NoInstance
            ELSE /\ ret' = Return(None)
                 /\ self' = [BasicInit("BackorderEOQ", a.price, a.demand_rate,
                                       a.ordering_cost, a.holding_rate, None)
                               EXCEPT !.shortage_cost = a.shortage_cost]
    /\ first' = None
    /\ calcs' = 0
    /\ printed' = FALSE
    /\ UNCHANGED <<caller_rates, mutated>>

(***************************************************************************)
(* DiscountEOQ.__init__                                                    *)
(***************************************************************************)
\* sorted(discount_rates.items()): the (breakpoint, rate) pairs by ascending breakpoint
RECURSIVE SortedItems(_)
SortedItems(d) ==
    IF DOMAIN d = {} THEN <<>>
    ELSE LET m == CHOOSE x \in DOMAIN d : \A y \in DOMAIN d : x <= y
         IN  <<<<m, d[m]>>>> \o SortedItems([x \in DOMAIN d \ {m} |-> d[x]])

\* all(0 <= rate < 1 for _, rate in self.discount_rates.items())
RatesInRange(d) == \A q \in DOMAIN d : RLe(Zero, d[q]) /\ RLt(d[q], Whole(1))

\* the dict after  if 0 not in d: d[0] = 0
WithBaseTier(d) ==
    IF 0 \in DOMAIN d THEN d
    ELSE [q \in DOMAIN d \cup {0} |-> IF q = 0 THEN Zero ELSE d[q]]

DiscountInitRaises(a) ==
    \/ BasicInitRaises(a.price, a.demand_rate, a.ordering_cost, a.holding_rate)
    \/ ~a.has_rates
    \/ DOMAIN a.discount_rates = {}
    \/ ~RatesInRange(a.discount_rates)

NewDiscount(schedules) ==
    /\ call.op = "none"
    /\ \E p \in Prices, d \in Demands, s \in OrderCosts, h \in HoldingRates,
          given \in BOOLEAN, dr \in schedules :
         LET b == BaseArgs(p, d, s, h)
             a == [price |-> b.price, demand_rate |-> b.demand_rate,
                   ordering_cost |-> b.ordering_cost, holding_rate |-> b.holding_rate,
                   has_rates |-> given, discount_rates |-> IF given THEN dr ELSE <<>>]
         IN
         /\ given \/ dr = <<>>
         /\ call' = [op |-> "DiscountEOQ", args |-> a]
         /\ IF DiscountInitRaises(a)
            THEN /\ ret' = Raise("ValueError")
                 /\ self' = NoInstance
                 /\ caller_rates' = a.discount_rates
            ELSE /\ ret' = Return(None)
                 /\ self' = [BasicInit("DiscountEOQ", a.price, a.demand_rate,
                                       a.ordering_cost, a.holding_rate, None)
                               EXCEPT !.sorted_discounts = SortedItems(a.discount_rates),
                                      !.discount_rates = "caller_rates"]
                 /\ caller_rates' = WithBaseTier(a.discount_rates)
    /\ first' = None
    /\ calcs' = 0
    /\ printed' = FALSE
    /\ mutated' = FALSE

\* the constructor call with any dict, and with a dict of at most one entry
NewDiscountEOQ == NewDiscount(Schedules)
NewSmallDiscountEOQ == NewDiscount(SmallSchedules)

\* the dict self.discount_rates refers to
DiscountRatesOf(obj, heap) ==
    IF obj.discount_rates = "caller_rates" THEN heap ELSE <<>>

(***************************************************************************)
(* calculate_eoq                                                           *)
(***************************************************************************)
Two == Whole(2)

\* variant: the factor 2 is missing, math.sqrt(D * S / H)
BasicEoqNoTwo(obj) ==
    Sqrt(RDiv(RMul(obj.demand_rate, obj.ordering_cost), obj.holding_cost))

\* BasicEOQ.calculate_eoq: math.sqrt(2 * D * S / H)
BasicEoq(obj) ==
    Sqrt(RDiv(RMul(RMul(Two, obj.demand_rate), obj.ordering_cost), obj.holding_cost))

\* EPQ.calculate_eoq: math.sqrt((2 * D * S / H) * (P / (P - D)))
EPQRaises(obj) == RLe(obj.production_rate, obj.demand_rate)
EPQEoq(obj) ==
    Sqrt(RMul(RDiv(RMul(RMul(Two, obj.demand_rate), obj.ordering_cost), obj.holding_cost),
              RDiv(obj.production_rate, RSub(obj.production_rate, obj.demand_rate))))

\* BackorderEOQ.calculate_eoq: math.sqrt((2 * D * S * (H + P)) / (H * P))
BackorderEoq(obj) ==
    Sqrt(RDiv(RMul(RMul(RMul(Two, obj.demand_rate), obj.ordering_cost),
                   RAdd(obj.holding_cost, obj.shortage_cost)),
              RMul(obj.holding_cost, obj.shortage_cost)))

\* DiscountEOQ.calculate_total_cost(quantity, price)
CalculateTotalCost(obj, quantity, price) ==
    LET purchase_cost == Num(RMul(obj.demand_rate, price))
        ordering_cost_component ==
            IF Gt(quantity, Num(Zero))
            THEN Mul(Div(Num(obj.demand_rate), quantity), Num(obj.ordering_cost))
            ELSE Num(Zero)
        holding_cost_component ==
            Mul(Div(quantity, Num(Two)), Num(RMul(price, obj.holding_rate)))
    IN  Add(Add(purchase_cost, ordering_cost_component), holding_cost_component)

\* the locals of DiscountEOQ.calculate_eoq before the loop
DiscountStart ==
    [best_order_quantity |-> None, min_total_cost |-> Inf, best_unit_price |-> None]

\* the order quantity of tier i: the tier's EOQ clamped to the tier's range
TierQuantity(candidate_eoq, min_qty, max_qty) ==
    IF Gt(candidate_eoq, max_qty) THEN max_qty
    ELSE IF Lt(candidate_eoq, min_qty) THEN min_qty
    ELSE candidate_eoq

\* variant: a tier of equal cost replaces the best tier
KeepBestOnTie(acc, total_cost, order_quantity, discounted_price) ==
    IF Le(total_cost, acc.min_total_cost)
    THEN [best_order_quantity |-> order_quantity,
          min_total_cost |-> total_cost,
          best_unit_price |-> Num(discounted_price)]
    ELSE acc

\* replace the best tier when the cost is strictly smaller
KeepBest(acc, total_cost, order_quantity, discounted_price) ==
    IF Lt(total_cost, acc.min_total_cost)
    THEN [best_order_quantity |-> order_quantity,
          min_total_cost |-> total_cost,
          best_unit_price |-> Num(discounted_price)]
    ELSE acc

\* one iteration of the loop over the tiers; i is the 1-based index into tiers
DiscountTier(obj, tiers, i, acc) ==
    LET min_qty == Num(Whole(tiers[i][1]))
        discount_rate == tiers[i][2]
        discounted_price == RMul(obj.price, RSub(Whole(1), discount_rate))
        max_qty == IF i + 1 <= Len(tiers) THEN Num(Whole(tiers[i + 1][1] - 1)) ELSE Inf
        H == RMul(discounted_price, obj.holding_rate)
        candidate_eoq ==
            Sqrt(RDiv(RMul(RMul(Two, obj.demand_rate), obj.ordering_cost), H))
        order_quantity == TierQuantity(candidate_eoq, min_qty, max_qty)
        total_cost == CalculateTotalCost(obj, order_quantity, discounted_price)
    IN  KeepBest(acc, total_cost, order_quantity, discounted_price)

RECURSIVE DiscountLoop(_, _, _, _)
DiscountLoop(obj, tiers, i, acc) ==
    IF i > Len(tiers) THEN acc
    ELSE DiscountLoop(obj, tiers, i + 1, DiscountTier(obj, tiers, i, acc))

\* the tiers DiscountEOQ.calculate_eoq iterates
TiersOf(obj) == obj.sorted_discounts

\* the locals of DiscountEOQ.calculate_eoq after the loop
DiscountSearch(obj) == DiscountLoop(obj, TiersOf(obj), 1, DiscountStart)

\* what DiscountEOQ.calculate_eoq returns
DiscountEoq(obj) == DiscountSearch(obj).best_order_quantity

\* the divisor of the class's formula is 0: the float division raises
EoqZeroDivision(obj) ==
    CASE obj.cls \in {"BasicEOQ", "EPQ"} -> obj.holding_cost = Zero
      [] obj.cls = "BackorderEOQ" -> RMul(obj.holding_cost, obj.shortage_cost) = Zero
      [] obj.cls = "DiscountEOQ" ->
           \E i \in 1..Len(obj.sorted_discounts) :
              RMul(RMul(obj.price, RSub(Whole(1), obj.sorted_discounts[i][2])),
                   obj.holding_rate) = Zero

\* what the body of calculate_eoq computes, by class
EoqValue(obj) ==
    CASE obj.cls = "EPQ" /\ EPQRaises(obj) -> Raise("ValueError")
      [] EoqZeroDivision(obj) -> Raise("ZeroDivisionError")
      [] obj.cls = "BasicEOQ" -> Return(BasicEoq(obj))
      [] obj.cls = "EPQ" -> Return(EPQEoq(obj))
      [] obj.cls = "DiscountEOQ" -> Return(DiscountEoq(obj))
      [] obj.cls = "BackorderEOQ" -> Return(BackorderEoq(obj))

\* variant: in analysis mode the method prints and falls off its end
EoqCallSilent(obj, analysis_mode) ==
    IF analysis_mode /\ obj.cls # "BackorderEOQ" THEN Return(None) ELSE EoqValue(obj)

\* the outcome of self.calculate_eoq(analysis_mode): analysis_mode guards
\* print statements only, and the return statement is outside them
EoqCall(obj, analysis_mode) == EoqValue(obj)

\* self.calculate_eoq(analysis_mode) writes to standard output: BackorderEOQ
\* never prints, EPQ and DiscountEOQ print a first line before they compute,
\* BasicEOQ prints after the division
EoqPrints(obj, analysis_mode) ==
    /\ analysis_mode
    /\ obj.cls # "BackorderEOQ"
    /\ obj.cls = "BasicEOQ" => ~EoqZeroDivision(obj)

\* the outcome of self.calculate_eoq(), analysis_mode defaulting to False
EoqOutcome(obj) == EoqCall(obj, FALSE)

\* variant: the value is stored before the square root is taken
AfterEoqNoRoot(obj) ==
    IF obj.cls = "BasicEOQ"
    THEN [obj EXCEPT !.eoq_value =
            Num(RDiv(RMul(RMul(Two, obj.demand_rate), obj.ordering_cost),
                     obj.holding_cost))]
    ELSE obj

\* the instance after self.calculate_eoq(): only BasicEOQ stores the value
AfterEoq(obj) ==
    IF obj.cls = "BasicEOQ" /\ ~EoqZeroDivision(obj)
    THEN [obj EXCEPT !.eoq_value = BasicEoq(obj)]
    ELSE obj

CalculateEoq ==
    /\ self.cls # "None"
    /\ calcs < MaxCalcs
    /\ calcs' = calcs + 1
    /\ \E analysis_mode \in BOOLEAN :
         /\ call' = [op |-> "calculate_eoq", args |-> [analysis_mode |-> analysis_mode]]
         /\ ret' = EoqCall(self, analysis_mode)
         /\ printed' = EoqPrints(self, analysis_mode)
    /\ self' = AfterEoq(self)
    /\ first' = IF calcs = 0 /\ ret'.kind = "return" THEN ret'.v ELSE first
    /\ UNCHANGED <<caller_rates, mutated>>

(***************************************************************************)
(* BasicEOQ.calculate_reorder_point, inherited by every class              *)
(***************************************************************************)
\* variant: the safety stock is not validated
ReorderPointRaisesNoSafety(lead_time, safety_stock, days_of_operation) ==
    \/ lead_time = None
    \/ Lt(lead_time, Num(Zero))
    \/ days_of_operation <= 0

ReorderPointRaises(lead_time, safety_stock, days_of_operation) ==
    \/ lead_time = None
    \/ Lt(lead_time, Num(Zero))
    \/ safety_stock < 0
    \/ days_of_operation <= 0

ReorderPoint(obj, lead_time, safety_stock, days_of_operation) ==
    LET daily_demand == Div(Num(obj.demand_rate), Num(Whole(days_of_operation)))
    IN  Add(Mul(daily_demand, lead_time), Num(Whole(safety_stock)))

\* the instance after the call: self.lead_time = lead_time comes first
AfterReorderPoint(obj, lead_time) == [obj EXCEPT !.lead_time = lead_time]

CalculateReorderPoint ==
    /\ self.cls # "None"
    /\ \E lead_time \in LeadTimes, safety_stock \in SafetyStocks,
          days_of_operation \in DaysOfOperation :
         /\ call' = [op |-> "calculate_reorder_point",
                     args |-> [lead_time |-> lead_time, safety_stock |-> safety_stock,
                               days_of_operation |-> days_of_operation]]
         /\ self' = AfterReorderPoint(self, lead_time)
         /\ ret' = IF ReorderPointRaises(lead_time, safety_stock, days_of_operation)
                   THEN Raise("ValueError")
                   ELSE Return(ReorderPoint(self, lead_time, safety_stock,
                                            days_of_operation))
    /\ printed' = FALSE
    /\ UNCHANGED <<caller_rates, mutated, first, calcs>>

(***************************************************************************)
(* inventory_level                                                         *)
(***************************************************************************)
\* Python truth value of a float or None
Truthy(x) == x # None /\ x # Num(Zero)

\* floor(t / T) for t >= 0 and T > 0, counting up from j
RECURSIVE FloorQuot(_, _, _)
FloorQuot(t, T, j) ==
    IF Le(Mul(Num(Whole(j + 1)), T), t) THEN FloorQuot(t, T, j + 1) ELSE j

\* variant: the time is not reduced to the cycle
ModNoWrap(t, T) == t

\* t % T for t >= 0 and T > 0
Mod(t, T) == Sub(t, Mul(Num(Whole(FloorQuot(t, T, 0))), T))

\* True * x is x and False * x is 0.0
BoolMul(flag, x) == IF flag THEN x ELSE Num(Zero)

\* Q = self.eoq_value if self.eoq_value else self.calculate_eoq()
QOutcome(obj) ==
    IF Truthy(obj.eoq_value) THEN Return(obj.eoq_value) ELSE EoqOutcome(obj)
AfterQ(obj) == IF Truthy(obj.eoq_value) THEN obj ELSE AfterEoq(obj)

\* Q - D * (t % T) with T = Q / D, t in years
BasicSawtooth(obj, Q, t) ==
    Sub(Q, Mul(Num(obj.demand_rate), Mod(t, Div(Q, Num(obj.demand_rate)))))

\* BasicEOQ.inventory_level, also used by DiscountEOQ, once Q is bound
BasicLevel(obj, Q, days, analysis_mode) ==
    LET t == Num(Rat(days, 365))
        D == Num(obj.demand_rate)
        T == Div(Q, D)
    IN  IF T = Num(Zero) THEN Raise("ZeroDivisionError")
        ELSE IF analysis_mode THEN Return(None)
        ELSE Return(BasicSawtooth(obj, Q, t))

\* the production-phase term of EPQ.inventory_level: (P - D) * mod_t
EPQProduction(obj, mod_t) ==
    Mul(Sub(Num(obj.production_rate), Num(obj.demand_rate)), mod_t)

\* variant: the depletion is counted from the start of the cycle
EPQDepletionFromStart(obj, Q, mod_t) ==
    LET D == Num(obj.demand_rate)
        P == Num(obj.production_rate)
        max_inventory == Mul(Q, Sub(Num(Whole(1)), Div(D, P)))
    IN  Sub(max_inventory, Mul(D, mod_t))

\* the depletion-phase term: max_inventory - D * (mod_t - production_end)
EPQDepletion(obj, Q, mod_t) ==
    LET D == Num(obj.demand_rate)
        P == Num(obj.production_rate)
        production_end == Div(Q, P)
        max_inventory == Mul(Q, Sub(Num(Whole(1)), Div(D, P)))
    IN  Sub(max_inventory, Mul(D, Sub(mod_t, production_end)))

\* the inventory of EPQ.inventory_level at mod_t = t % T
EPQInventory(obj, Q, mod_t) ==
    LET production_end == Div(Q, Num(obj.production_rate))
        production_phase == Le(mod_t, production_end)
        depletion_phase == Gt(mod_t, production_end)
    IN  Add(BoolMul(production_phase, EPQProduction(obj, mod_t)),
            BoolMul(depletion_phase, EPQDepletion(obj, Q, mod_t)))

\* EPQ.inventory_level once Q is bound
EPQLevel(obj, Q, days, analysis_mode) ==
    LET t == Num(Rat(days, 365))
        T == Div(Q, Num(obj.demand_rate))
    IN  IF analysis_mode THEN Return(None)
        ELSE Return(EPQInventory(obj, Q, Mod(t, T)))

\* BackorderEOQ.inventory_level once Q is bound
BackorderLevel(obj, Q, days, analysis_mode) ==
    LET t == Num(Rat(days, 365))
        D == Num(obj.demand_rate)
        H == Num(obj.holding_cost)
        P == Num(obj.shortage_cost)
        T == Div(Q, D)
        max_inventory == Mul(Div(P, Add(H, P)), Q)
        mod_t == Mod(t, T)
        inventory_end == Div(max_inventory, D)
        inventory_phase == Le(mod_t, inventory_end)
        backorder_phase == Gt(mod_t, inventory_end)
        inventory ==
            Add(BoolMul(inventory_phase, Sub(max_inventory, Mul(D, mod_t))),
                BoolMul(backorder_phase,
                        Sub(Num(Zero), Mul(D, Sub(mod_t, inventory_end)))))
    IN  Return(inventory)

\* the outcome of self.inventory_level(t, analysis_mode); q is the outcome of
\* the first statement, which binds Q
LevelOutcome(obj, q, days, analysis_mode) ==
    IF q.kind = "raise" THEN q
    ELSE IF q.v = Num(Zero) THEN Raise("ZeroDivisionError")
    ELSE CASE obj.cls \in {"BasicEOQ", "DiscountEOQ"} ->
                BasicLevel(obj, q.v, days, analysis_mode)
           [] obj.cls = "EPQ" -> EPQLevel(obj, q.v, days, analysis_mode)
           [] obj.cls = "BackorderEOQ" -> BackorderLevel(obj, q.v, days, analysis_mode)

\* inventory_level writes to standard output: the print statements come
\* after Q is bound and, in EPQ and BackorderEOQ, after t % T
LevelPrints(obj, q, analysis_mode) ==
    /\ analysis_mode
    /\ q.kind = "return"
    /\ obj.cls \in {"EPQ", "BackorderEOQ"} => q.v # Num(Zero)

\* the call once Q = self.eoq_value if self.eoq_value else self.calculate_eoq()
\* has had the outcome q
InventoryLevelWith(q) ==
    \E days \in Times, analysis_mode \in BOOLEAN :
         /\ call' = [op |-> "inventory_level",
                     args |-> [t |-> days, analysis_mode |-> analysis_mode]]
         /\ ret' = LevelOutcome(self, q, days, analysis_mode)
         /\ printed' = LevelPrints(self, q, analysis_mode)

InventoryLevel ==
    /\ self.cls # "None"
    /\ InventoryLevelWith(QOutcome(self))
    /\ self' = AfterQ(self)
    /\ UNCHANGED <<caller_rates, mutated, first, calcs>>

(***************************************************************************)
(* BackorderEOQ.calculate_cycle_metrics                                    *)
(***************************************************************************)
\* variant: the maximum backorder is taken from the maximum inventory
CycleMetricsFromInventory(obj, Q) ==
    LET D == Num(obj.demand_rate)
        S == Num(obj.ordering_cost)
        H == Num(obj.holding_cost)
        P == Num(obj.shortage_cost)
        max_inventory == Mul(Div(P, Add(H, P)), Q)
        max_backorder == Mul(Div(H, Add(H, P)), max_inventory)
        total_cost ==
            Add(Add(Div(Mul(D, S), Q),
                    Div(Mul(H, Mul(max_inventory, max_inventory)), Mul(Num(Two), Q))),
                Div(Mul(P, Mul(max_backorder, max_backorder)), Mul(Num(Two), Q)))
    IN  [k |-> "dict", Q_opt |-> Q, S_max |-> max_inventory, B_max |-> max_backorder,
         TotalCost |-> total_cost]

\* the dict calculate_cycle_metrics builds once Q = self.calculate_eoq() is bound
CycleMetrics(obj, Q) ==
    LET D == Num(obj.demand_rate)
        S == Num(obj.ordering_cost)
        H == Num(obj.holding_cost)
        P == Num(obj.shortage_cost)
        max_inventory == Mul(Div(P, Add(H, P)), Q)
        max_backorder == Mul(Div(H, Add(H, P)), Q)
        total_cost ==
            Add(Add(Div(Mul(D, S), Q),
                    Div(Mul(H, Mul(max_inventory, max_inventory)), Mul(Num(Two), Q))),
                Div(Mul(P, Mul(max_backorder, max_backorder)), Mul(Num(Two), Q)))
    IN  [k |-> "dict", Q_opt |-> Q, S_max |-> max_inventory, B_max |-> max_backorder,
         TotalCost |-> total_cost]

\* the outcome of self.calculate_cycle_metrics(); q is the outcome of
\* self.calculate_eoq()
CycleMetricsOutcome(obj, q) ==
    IF q.kind = "raise" THEN q
    ELSE IF q.v = Num(Zero) THEN Raise("ZeroDivisionError")
    ELSE Return(CycleMetrics(obj, q.v))

CalculateCycleMetrics ==
    /\ self.cls = "BackorderEOQ"
    /\ call' = [op |-> "calculate_cycle_metrics", args |-> <<>>]
    /\ ret' = CycleMetricsOutcome(self, EoqOutcome(self))
    /\ printed' = FALSE
    /\ UNCHANGED <<self, caller_rates, mutated, first, calcs>>

(***************************************************************************)
(* The caller changes the dict it passed to DiscountEOQ: d[q] = r, del d[q]*)
(***************************************************************************)
SetItem(d, q, r) == [x \in DOMAIN d \cup {q} |-> IF x = q THEN r ELSE d[x]]
DelItem(d, q) == [x \in DOMAIN d \ {q} |-> d[x]]

CallerMutation ==
    /\ self.cls = "DiscountEOQ"
    /\ ~mutated
    /\ \/ \E q \in Breaks, r \in {Zero, Rat(1, 2)} :
            /\ caller_rates' = SetItem(caller_rates, q, r)
            /\ caller_rates' # caller_rates
            /\ call' = [op |-> "setitem", args |-> [key |-> q]]
       \/ \E q \in DOMAIN caller_rates :
            /\ caller_rates' = DelItem(caller_rates, q)
            /\ call' = [op |-> "delitem", args |-> [key |-> q]]
    /\ mutated' = TRUE
    /\ ret' = Return(None)
    /\ printed' = FALSE
    /\ UNCHANGED <<self, first, calcs>>

(***************************************************************************)
(* economic_order_quantity.py: the earlier class Basic_EOQ, constructed    *)
(* from the holding cost itself and without validation.                    *)
(***************************************************************************)
HoldingCosts == {Whole(-1), Zero, Rat(1, 2), Whole(1)}

\* Basic_EOQ.__init__ stores its arguments
LegacyInit(demand_rate, ordering_cost, holding_cost, lead_time) ==
    [NoInstance EXCEPT !.cls = "Basic_EOQ",
                       !.demand_rate = demand_rate,
                       !.ordering_cost = ordering_cost,
                       !.holding_cost = holding_cost,
                       !.lead_time = lead_time]

NewLegacyEOQ ==
    /\ call.op = "none"
    /\ \E d \in Demands, s \in OrderCosts, hc \in HoldingCosts, lead_time \in LeadTimes :
         /\ call' = [op |-> "Basic_EOQ",
                     args |-> [demand_rate |-> Whole(d), ordering_cost |-> Whole(s),
                               holding_cost |-> hc, lead_time |-> lead_time]]
         /\ self' = LegacyInit(Whole(d), Whole(s), hc, lead_time)
    /\ ret' = Return(None)
    /\ first' = None
    /\ calcs' = 0
    /\ printed' = FALSE
    /\ UNCHANGED <<caller_rates, mutated>>

\* Basic_EOQ.calculate_eoq: negative parameters and H == 0 raise ValueError
LegacyEoq(obj) ==
    IF RLt(obj.demand_rate, Zero) \/ RLt(obj.ordering_cost, Zero)
         \/ RLt(obj.holding_cost, Zero)
    THEN Raise("ValueError")
    ELSE IF obj.holding_cost = Zero THEN Raise("ValueError")
    ELSE Return(BasicEoq(obj))

LegacyCalculateEoq ==
    /\ self.cls = "Basic_EOQ"
    /\ calcs < MaxCalcs
    /\ calcs' = calcs + 1
    /\ call' = [op |-> "calculate_eoq", args |-> <<>>]
    /\ ret' = LegacyEoq(self)
    /\ first' = IF calcs = 0 /\ ret'.kind = "return" THEN ret'.v ELSE first
    /\ printed' = FALSE
    /\ UNCHANGED <<self, caller_rates, mutated>>

\* Basic_EOQ.calculate_reorder_point: a lead_time of None falls off the end
LegacyReorderPoint(obj, lead_time, safety_stock, days_of_operation) ==
    IF lead_time = None THEN Return(None)
    ELSE IF ReorderPointRaises(lead_time, safety_stock, days_of_operation)
    THEN Raise("ValueError")
    ELSE Return(ReorderPoint(obj, lead_time, safety_stock, days_of_operation))

LegacyCalculateReorderPoint ==
    /\ self.cls = "Basic_EOQ"
    /\ \E lead_time \in LeadTimes, safety_stock \in SafetyStocks,
          days_of_operation \in DaysOfOperation :
         /\ call' = [op |-> "calculate_reorder_point",
                     args |-> [lead_time |-> lead_time, safety_stock |-> safety_stock,
                               days_of_operation |-> days_of_operation]]
         /\ ret' = LegacyReorderPoint(self, lead_time, safety_stock, days_of_operation)
    /\ printed' = FALSE
    /\ UNCHANGED <<self, caller_rates, mutated, first, calcs>>

(***************************************************************************)
(* Spec: the four classes with every method; the discount schedule has at  *)
(* most one entry.  SpecDiscount: DiscountEOQ alone with every schedule   *)
(* over the breakpoints, its tier search and the caller's changes to the   *)
(* dict.                                                                   *)
(***************************************************************************)
Next ==
    \/ NewBasicEOQ
    \/ NewEPQ
    \/ NewBackorderEOQ
    \/ NewSmallDiscountEOQ
    \/ CalculateEoq
    \/ CalculateReorderPoint
    \/ InventoryLevel
    \/ CalculateCycleMetrics

Spec == Init /\ [][Next]_vars

NextDiscount ==
    \/ NewDiscountEOQ
    \/ CalculateEoq
    \/ CallerMutation

SpecDiscount == Init /\ [][NextDiscount]_vars

\* SpecTiers: DiscountEOQ with every schedule and its tier search alone
NextTiers ==
    \/ NewDiscountEOQ
    \/ CalculateEoq

SpecTiers == Init /\ [][NextTiers]_vars

\* SpecLegacy: the class Basic_EOQ of economic_order_quantity.py
NextLegacy ==
    \/ NewLegacyEOQ
    \/ LegacyCalculateEoq
    \/ LegacyCalculateReorderPoint

SpecLegacy == Init /\ [][NextLegacy]_vars

(***************************************************************************)
(* The tests' reference computation expected_discount (test_eoq_logic.py): *)
(* exhaustive per-tier evaluation over the schedule with the 0 -> 0 tier.  *)
(***************************************************************************)
\* max(a, b) and min(a, b) of Python
PyMax(a, b) == IF Gt(b, a) THEN b ELSE a
PyMin(a, b) == IF Lt(b, a) THEN b ELSE a

\* dict(self.sorted_discounts): the schedule the caller passed
ScheduleOf(obj) ==
    LET sd == obj.sorted_discounts
    IN  [q \in {sd[i][1] : i \in 1..Len(sd)} |->
            (CHOOSE pair \in {sd[i] : i \in 1..Len(sd)} : pair[1] = q)[2]]

\* tiers = sorted({0: 0, **discount_rates}.items())
ExpectedTiers(discount_rates) == SortedItems(WithBaseTier(discount_rates))

\* order_qty of tier i
ExpectedQuantity(obj, tiers, i) ==
    LET price_break == Num(Whole(tiers[i][1]))
        unit_price == RMul(obj.price, RSub(Whole(1), tiers[i][2]))
        H == RMul(unit_price, obj.holding_rate)
        qmax == IF i + 1 <= Len(tiers) THEN Num(Whole(tiers[i + 1][1] - 1)) ELSE Inf
        qstar == IF RLe(H, Zero) THEN Inf
                 ELSE Sqrt(RDiv(RMul(RMul(Two, obj.demand_rate), obj.ordering_cost), H))
    IN  PyMin(PyMax(qstar, price_break), qmax)

\* total_cost of tier i, for a positive order_qty
ExpectedCost(obj, tiers, i) ==
    LET unit_price == RMul(obj.price, RSub(Whole(1), tiers[i][2]))
        H == RMul(unit_price, obj.holding_rate)
        order_qty == ExpectedQuantity(obj, tiers, i)
    IN  Add(Add(Num(RMul(obj.demand_rate, unit_price)),
                Mul(Div(Num(obj.demand_rate), order_qty), Num(obj.ordering_cost))),
            Mul(Div(order_qty, Num(Two)), Num(H)))

\* candidate < best on the tuples (total_cost, order_qty)
CandidateLt(obj, tiers, i, j) ==
    \/ Lt(ExpectedCost(obj, tiers, i), ExpectedCost(obj, tiers, j))
    \/ /\ ExpectedCost(obj, tiers, i) = ExpectedCost(obj, tiers, j)
       /\ Lt(ExpectedQuantity(obj, tiers, i), ExpectedQuantity(obj, tiers, j))

\* expected_discount divides by order_qty: it raises when a tier's quantity is 0
ExpectedRaises(obj, tiers) ==
    \E i \in 1..Len(tiers) : ExpectedQuantity(obj, tiers, i) = Num(Zero)

\* best[1]: the quantity of the least (total_cost, order_qty)
ExpectedDiscount(obj) ==
    LET tiers == ExpectedTiers(ScheduleOf(obj))
        best == CHOOSE i \in 1..Len(tiers) :
                    \A j \in 1..Len(tiers) : ~CandidateLt(obj, tiers, j, i)
    IN  ExpectedQuantity(obj, tiers, best)

(***************************************************************************)
(* Claims                                                                  *)
(***************************************************************************)
EoqReturned == call.op = "calculate_eoq" /\ ret.kind = "return"
DiscountEoqReturned == self.cls = "DiscountEOQ" /\ EoqReturned

\* C1: DiscountEOQ.calculate_eoq() returns a composite with the fields best
\* quantity, minimum total cost and unit price at the best quantity, not a
\* bare scalar.
C1_CompositeResult ==
    DiscountEoqReturned => ret.v.k = "dict"

\* C2: the quantity DiscountEOQ.calculate_eoq() selects equals the quantity of
\* the minimum-total-cost candidate of the exhaustive per-tier evaluation over
\* the caller's schedule extended with the 0 -> 0 tier.
C2_MatchesExhaustive ==
    (DiscountEoqReturned
       /\ ~ExpectedRaises(self, ExpectedTiers(ScheduleOf(self))))
    => ret.v = ExpectedDiscount(self)

\* C3: DiscountEOQ.calculate_eoq() never selects a best quantity <= 0.
C3_NeverZeroQuantity ==
    DiscountEoqReturned => (ret.v.k = "fin" /\ Gt(ret.v, Num(Zero)))

\* C4: the tier sequence the model keeps (sorted_discounts) contains a tier
\* with breakpoint 0 (added when the caller supplied none) and is sorted
\* strictly ascending by breakpoint.
C4_SortedWithBaseTier ==
    self.cls = "DiscountEOQ" =>
      LET sd == self.sorted_discounts IN
      /\ \E i \in 1..Len(sd) : sd[i][1] = 0
      /\ \A i \in 1..(Len(sd) - 1) : sd[i][1] < sd[i + 1][1]

\* C5: after the DiscountEOQ constructor has returned or raised, the caller's
\* mapping has the keys and values it had before the call.
C5_CallerMappingUnchanged ==
    call.op = "DiscountEOQ" => caller_rates = call.args.discount_rates

\* C6: a change the caller makes to its mapping after construction changes
\* neither the result of calculate_eoq() nor the schedule the model holds
\* (discount_rates and sorted_discounts).
C6_MutationIsolated ==
    [][call'.op \in {"setitem", "delitem"} =>
         /\ DiscountRatesOf(self', caller_rates') = DiscountRatesOf(self, caller_rates)
         /\ self'.sorted_discounts = self.sorted_discounts
         /\ EoqOutcome(self') = EoqOutcome(self)]_vars

\* the parameters of the last constructor call are outside their domain
OutOfDomain ==
    LET a == call.args IN
    \/ a.price[1] <= 0
    \/ a.demand_rate[1] <= 0
    \/ a.ordering_cost[1] <= 0
    \/ a.holding_rate[1] <= 0
    \/ call.op = "EPQ" /\ RLe(a.production_rate, a.demand_rate)
    \/ call.op = "BackorderEOQ" /\ a.shortage_cost[1] <= 0
    \/ call.op = "DiscountEOQ"
         /\ \/ DOMAIN a.discount_rates = {}
            \/ \E q \in DOMAIN a.discount_rates :
                  a.discount_rates[q][1] < 0
                  \/ a.discount_rates[q][1] >= a.discount_rates[q][2]

Constructors == {"BasicEOQ", "EPQ", "BackorderEOQ", "DiscountEOQ"}

\* C7: a constructor call with a parameter outside its domain raises and
\* yields no instance; every instance that exists has positive price, demand
\* rate, ordering cost and holding rate, production_rate > demand_rate (EPQ),
\* shortage_cost > 0 (BackorderEOQ), a non-empty schedule with rates in [0,1)
\* (DiscountEOQ), and holding_cost = price * holding_rate > 0.
C7_InvalidParametersRejected ==
    /\ (call.op \in Constructors /\ OutOfDomain)
         => (ret.kind = "raise" /\ self = NoInstance)
    /\ self.cls # "None" =>
         /\ self.price[1] > 0 /\ self.demand_rate[1] > 0
         /\ self.ordering_cost[1] > 0 /\ self.holding_rate[1] > 0
         /\ self.holding_cost[1] * self.price[2] * self.holding_rate[2]
              = self.price[1] * self.holding_rate[1] * self.holding_cost[2]
         /\ self.holding_cost[1] > 0
         /\ self.cls = "EPQ" => RLt(self.demand_rate, self.production_rate)
         /\ self.cls = "BackorderEOQ" => self.shortage_cost[1] > 0
         /\ self.cls = "DiscountEOQ" =>
              /\ Len(self.sorted_discounts) > 0
              /\ \A i \in 1..Len(self.sorted_discounts) :
                    /\ self.sorted_discounts[i][2][1] >= 0
                    /\ self.sorted_discounts[i][2][1] < self.sorted_discounts[i][2][2]

\* C7 witness: an EPQ constructor call whose only fault is
\* production_rate <= demand_rate has raised.
C7_Witness ==
    /\ call.op = "EPQ"
    /\ call.args.price[1] > 0 /\ call.args.demand_rate[1] > 0
    /\ call.args.ordering_cost[1] > 0 /\ call.args.holding_rate[1] > 0
    /\ call.args.production_rate = call.args.demand_rate
    /\ ret.kind = "raise"
    /\ self = NoInstance

\* C8: with numeric arguments calculate_reorder_point raises exactly when
\* lead_time < 0 or safety_stock < 0 or days_of_operation <= 0, and otherwise
\* returns (demand_rate / days_of_operation) * lead_time + safety_stock.
C8_ReorderPoint ==
    (call.op = "calculate_reorder_point" /\ call.args.lead_time # None) =>
      LET lt == call.args.lead_time.a
          ss == call.args.safety_stock
          days == call.args.days_of_operation
          invalid == lt[1] < 0 \/ ss < 0 \/ days <= 0
      IN  /\ ret.kind = "raise" <=> invalid
          /\ ~invalid =>
               /\ ret.v.k = "fin" /\ ret.v.b = Zero
               /\ ret.v.a[1] * days * lt[2] * self.demand_rate[2]
                    = (self.demand_rate[1] * lt[1]
                         + ss * days * lt[2] * self.demand_rate[2]) * ret.v.a[2]

\* C8 witness: a call with positive lead time and safety stock and two days of
\* operation has returned a value.
C8_Witness ==
    /\ call.op = "calculate_reorder_point"
    /\ call.args.lead_time = Num(Whole(1))
    /\ call.args.safety_stock = 1
    /\ call.args.days_of_operation = 2
    /\ self.demand_rate = Whole(1)
    /\ ret = Return(Num(Rat(3, 2)))

\* C9: a calculate_reorder_point call, returning or raising, leaves every
\* attribute of the instance (lead_time included) as it was.
C9_ReorderPointPure ==
    [][call'.op = "calculate_reorder_point" => self' = self]_vars

\* C10: every calculate_eoq() call on an instance returns the result of the
\* first one, whatever calls come between, and a cached eoq_value equals it.
C10_Idempotent ==
    /\ call.op = "calculate_eoq" => (ret.kind = "return" /\ ret.v = first)
    /\ (calcs > 0 /\ self.eoq_value # None) => self.eoq_value = first

\* C10 witness: a second calculate_eoq() call on a BasicEOQ, made after a
\* calculate_reorder_point call, has returned the cached irrational value.
C10_Witness ==
    /\ self.cls = "BasicEOQ"
    /\ call.op = "calculate_eoq"
    /\ calcs = 2
    /\ self.lead_time # None
    /\ ret.v = first
    /\ self.eoq_value = first
    /\ first.b # Zero

\* C11: BasicEOQ.calculate_eoq() returns the positive Q with
\* Q * Q * H = 2 * D * S, where H = price * holding_rate.
C11_BasicFormula ==
    (call.op = "calculate_eoq" /\ self.cls = "BasicEOQ") =>
      /\ ret.kind = "return"
      /\ ret.v.k = "fin"
      /\ Gt(ret.v, Num(Zero))
      /\ Mul(Mul(ret.v, ret.v), Num(RMul(self.price, self.holding_rate)))
           = Num(RMul(RMul(Two, self.demand_rate), self.ordering_cost))

\* C11 witness: price 2, D = 1, S = 1 and holding rate 1/2 give H = 1 and
\* the irrational Q = sqrt(2).
C11_Witness ==
    /\ call.op = "calculate_eoq"
    /\ self.cls = "BasicEOQ"
    /\ self.price = Whole(2) /\ self.holding_rate = Rat(1, 2)
    /\ self.demand_rate = Whole(1) /\ self.ordering_cost = Whole(1)
    /\ ret = Return(Fin(Zero, Whole(1), 2))

\* C12: in the basic model, calculate_eoq with a holding cost of exactly 0 and
\* the other parameters valid returns positive infinity and does not raise.
C12_ZeroHoldingCostIsInfinite ==
    (/\ call.op = "calculate_eoq"
     /\ self.cls \in {"Basic_EOQ", "BasicEOQ"}
     /\ self.holding_cost = Zero
     /\ RLt(Zero, self.demand_rate)
     /\ RLt(Zero, self.ordering_cost))
    => ret = Return(Inf)

\* C13: calculate_eoq(analysis_mode=True) and calculate_eoq(analysis_mode=False)
\* return the same value and leave the instance in the same state: a call
\* returns what the call with the other flag returns from the same instance,
\* and two consecutive calls with different flags agree in result and instance.
C13_FlagOnlyPrints ==
    [][call'.op = "calculate_eoq" =>
         /\ ret' = EoqCall(self, ~call'.args.analysis_mode)
         /\ (call.op = "calculate_eoq"
               /\ call.args.analysis_mode # call'.args.analysis_mode)
              => (ret' = ret /\ self' = self)]_vars

\* C13 witness: the second calculate_eoq call on an EPQ, made in analysis
\* mode, has printed and has returned what the first call returned.
C13_Witness ==
    /\ self.cls = "EPQ"
    /\ call.op = "calculate_eoq"
    /\ call.args.analysis_mode
    /\ printed
    /\ calcs = 2
    /\ ret.kind = "return"
    /\ ret.v = first
    /\ first.k = "fin"

\* C14: the result of BackorderEOQ.calculate_cycle_metrics() has
\* S_max + B_max = Q_opt, Q_opt the value calculate_eoq() returns,
\* S_max = (P / (H + P)) * Q_opt, B_max = (H / (H + P)) * Q_opt, and S_max and
\* B_max strictly positive.
C14_CycleMetricsSum ==
    call.op = "calculate_cycle_metrics" =>
      /\ ret.kind = "return"
      /\ LET m == ret.v
             H == Num(self.holding_cost)
             P == Num(self.shortage_cost)
         IN  /\ m.Q_opt = EoqOutcome(self).v
             /\ Add(m.S_max, m.B_max) = m.Q_opt
             /\ Mul(m.S_max, Add(H, P)) = Mul(P, m.Q_opt)
             /\ Mul(m.B_max, Add(H, P)) = Mul(H, m.Q_opt)
             /\ Gt(m.S_max, Num(Zero))
             /\ Gt(m.B_max, Num(Zero))

\* C14 witness: price 2, D = 1, S = 1, holding rate 1/2 and shortage cost 1
\* give Q_opt = 2, S_max = 1, B_max = 1 and a total cost of 1.
C14_Witness ==
    /\ self.cls = "BackorderEOQ"
    /\ call.op = "calculate_cycle_metrics"
    /\ ret = Return([k |-> "dict", Q_opt |-> Num(Whole(2)), S_max |-> Num(Whole(1)),
                     B_max |-> Num(Whole(1)), TotalCost |-> Num(Whole(1))])

\* C15: for every EPQ the production-phase expression (P - D) * mod_t and the
\* depletion-phase expression max_inventory - D * (mod_t - Q / P) have the
\* same value at mod_t = Q / P, the depletion expression is 0 at
\* mod_t = Q / D, and a level returned at the boundary is that common value.
C15_ContinuousAtBoundary ==
    self.cls = "EPQ" =>
      LET Q == EoqOutcome(self).v
          boundary == Div(Q, Num(self.production_rate))
          T == Div(Q, Num(self.demand_rate))
      IN  /\ EPQProduction(self, boundary) = EPQDepletion(self, Q, boundary)
          /\ EPQDepletion(self, Q, T) = Num(Zero)
          /\ (/\ call.op = "inventory_level"
               /\ ~call.args.analysis_mode
               /\ Mod(Num(Rat(call.args.t, 365)), T) = boundary)
              => ret = Return(EPQDepletion(self, Q, boundary))

\* C15 witness: price 2, D = 1, S = 1, holding rate 1/2 and P = 2 give Q = 2
\* and a production phase of one year; inventory_level(365) has returned the
\* maximum inventory 1.
C15_Witness ==
    /\ self.cls = "EPQ"
    /\ self.production_rate = Whole(2)
    /\ EoqOutcome(self) = Return(Num(Whole(2)))
    /\ call.op = "inventory_level"
    /\ call.args.t = 365
    /\ ~call.args.analysis_mode
    /\ ret = Return(Num(Whole(1)))

\* the candidate of tier i on its own: its order quantity and total cost
TierCandidate(i) == DiscountTier(self, self.sorted_discounts, i, DiscountStart)

\* C16: DiscountEOQ.calculate_eoq visits the tiers in ascending breakpoint
\* order and returns the candidate of a tier of minimum total cost; when
\* several tiers attain the minimum it is the one with the smallest breakpoint.
C16_FirstMinimumWins ==
    DiscountEoqReturned =>
      LET n == Len(self.sorted_discounts)
          cost(i) == TierCandidate(i).min_total_cost
          winner == CHOOSE i \in 1..n :
                      /\ \A j \in 1..n : ~Lt(cost(j), cost(i))
                      /\ \A j \in 1..(i - 1) : cost(j) # cost(i)
      IN  /\ \A i \in 1..(n - 1) :
                self.sorted_discounts[i][1] < self.sorted_discounts[i + 1][1]
          /\ ret.v = TierCandidate(winner).best_order_quantity

\* C16 witness: price 2, D = 1, S = 1, holding rate 1/2 and the schedule
\* {1: 0, 2: 0}: the tiers' candidates 1 and 2 both cost 7/2, and the call has
\* returned 1.
C16_Witness ==
    /\ DiscountEoqReturned
    /\ self.sorted_discounts = <<<<1, Zero>>, <<2, Zero>>>>
    /\ TierCandidate(1).min_total_cost = TierCandidate(2).min_total_cost
    /\ TierCandidate(2).best_order_quantity = Num(Whole(2))
    /\ ret = Return(Num(Whole(1)))

\* C17: for every class and every time t, inventory_level(t, analysis_mode)
\* returns the scalar inventory level for both values of analysis_mode.
C17_LevelForBothFlags ==
    (call.op = "inventory_level" /\ ret.kind = "return") => ret.v.k = "fin"

\* C18: with Q = calculate_eoq() and T = Q / demand_rate, the level
\* BasicEOQ.inventory_level(t) returns lies in [0, Q], is the level at
\* t + T * 365 days, and is the same whether or not calculate_eoq() was called
\* on the instance before.
C18_Sawtooth ==
    (/\ call.op = "inventory_level"
     /\ self.cls = "BasicEOQ"
     /\ ~call.args.analysis_mode)
    => LET Q == EoqOutcome([self EXCEPT !.eoq_value = None]).v
           T == Div(Q, Num(self.demand_rate))
           t == Num(Rat(call.args.t, 365))
       IN  /\ ret.kind = "return"
           /\ Le(Num(Zero), ret.v)
           /\ Le(ret.v, Q)
           /\ ret.v = BasicSawtooth(self, Q, Add(t, T))
           /\ ret.v = Sub(Q, Mul(Num(self.demand_rate), Mod(t, T)))

\* C18 witness: price 2, D = 2, S = 1 and holding rate 1/2 give Q = 2 and a
\* cycle of one year; inventory_level(438), called before any calculate_eoq()
\* call and one cycle after day 73, has returned 8/5.
C18_Witness ==
    /\ self.cls = "BasicEOQ"
    /\ self.demand_rate = Whole(2)
    /\ calcs = 0
    /\ call.op = "inventory_level"
    /\ call.args.t = 438
    /\ ~call.args.analysis_mode
    /\ ret = Return(Num(Rat(8, 5)))
    /\ ret.v = BasicSawtooth(self, Num(Whole(2)), Num(Rat(73, 365)))

====
